---- MODULE Spec2Model ----
(***************************************************************************)
(* Model of scripts/storage/dashboard/app.py: the migration dashboard's    *)
(* job supervisor (start_migration / run_migration / stop_migration), the  *)
(* persisted status file (load_json_file / save_json_file on STATUS_FILE)  *)
(* and the shared event queue (update_queue) read by /api/events.          *)
(*                                                                         *)
(* Every request handler and every run_migration thread is a process of    *)
(* the model; a step is one access to a shared object (the status file,    *)
(* the queue, the external process), so that the interleavings the         *)
(* threaded server (app.run(threaded=True)) allows are all explored.       *)
(***************************************************************************)
EXTENDS Integers, Sequences, FiniteSets, TLC

VARIABLES
    file,          \* STATUS_FILE on disk: [kind, doc, size]
    committed,     \* history: the last whole document the status file held
    queue,         \* update_queue: FIFO of events
    now,           \* the wall clock read by time.time()
    job,           \* run_migration threads: job[j] = [pc, source, target, status, exc, alive, emitted, errs, rc]
    started,       \* number of run_migration threads created so far
    stop,          \* stop_migration handlers: stop[t] = [pc, status, before]
    stops,         \* number of POST /api/stop requests received so far
    consumer,      \* /api/events generators: consumer[c] = [pc, deadline, since, lastSent]
    received,      \* received[c]: what consumer c's generator has yielded so far
    published,     \* history: number of events ever put on update_queue
    response,      \* body of the last GET /api/status response: [status, timestamp]
    reply,         \* the last POST /api/start and its reply: [source, target, code]
    metrics,       \* what load_json_file(METRICS_FILE) returns: a JSON document
    report         \* bodies of the GET /api/transfers responses, the last one only

vars == <<file, committed, queue, now, job, started, stop, stops, consumer, received, published,
          response, reply, metrics, report>>

transferVars == <<metrics, report>>

---------------------------------------------------------------------------
\* Bounds of the model.
MaxJobs == 2          \* run_migration threads that may be created
SoloJobs == 1         \* the same, where the jobs' environment is what is studied
MaxLines == 2         \* lines one external process prints on stdout
MaxErrLines == 1      \* lines one external process prints on stderr
MaxStops == 3         \* POST /api/stop requests
NumStopWorkers == 2   \* stop_migration handlers that may run at the same time
NumConsumers == 2     \* /api/events connections
MaxTime == 30         \* the clock stops advancing here
TickStep == 30        \* granularity of the modelled clock
MaxTransfers == 3     \* entries of the transfers list in the metrics file
MaxIdleTime == 60     \* the same two, where the consumers' timeouts are studied
FineStep == 15

\* Program constants.
QueueTimeout == 30    \* update_queue.get(timeout=30)

Percent == 100        \* ... / max(len(...), 1) * 100
BadRequest == 400     \* return jsonify({'error': ...}), 400
Ok == 200             \* the status of a reply that names none

\* Characters json.dump writes for a time.time() value (a float such as
\* 1730451234.5678902), whatever the small clock values of the model.
TimeWidth == 18

Jobs == 1..MaxJobs
StopWorkers == 1..NumStopWorkers
Consumers == 1..NumConsumers

\* Values a request body may carry for source / target; "" stands for a
\* missing or empty parameter (both are falsy in `not source or not target`).
Sources == {"", "src1", "src2"}
Targets == {"", "tgt1"}

---------------------------------------------------------------------------
\* JSON documents are Python dicts: functions from the keys present to values.
EmptyDoc == [k \in {} |-> "none"]

Has(doc, k) == k \in DOMAIN doc

\* doc[k] = v  (dict item assignment: adds the key or replaces its value)
Put(doc, k, v) == (k :> v) @@ doc

\* Number of characters of the strings that occur in status documents.
StrLen(str) ==
    CASE str \in {"idle", "src1", "src2", "tgt1"} -> 4
      [] str \in {"state", "error"} -> 5
      [] str \in {"failed", "source", "target"} -> 6
      [] str = "running" -> 7
      [] str \in {"stopping", "end_time"} -> 8
      [] str = "completed" -> 9
      [] str = "start_time" -> 10
      [] str = "Permission denied" -> 17
      [] str = "Input/output error" -> 18
      [] str = "Cannot allocate memory" -> 22
      [] OTHER -> 0

\* json.dump(data, f, indent=2): one line `  "key": value` per item, the items
\* separated by ",\n", between "{\n" and "\n}"; an empty dict is "{}".
ItemSize(k, v) ==
    2 + (StrLen(k) + 2) + 2 +
    (IF k \in {"start_time", "end_time"} THEN TimeWidth ELSE StrLen(v) + 2)

RECURSIVE ItemsSize(_, _)
ItemsSize(doc, keys) ==
    IF keys = {} THEN 0
    ELSE LET k == CHOOSE x \in keys : TRUE
         IN ItemSize(k, doc[k]) + ItemsSize(doc, keys \ {k})

DocSize(doc) ==
    IF DOMAIN doc = {} THEN 2
    ELSE 2 + ItemsSize(doc, DOMAIN doc) + 2 * (Cardinality(DOMAIN doc) - 1) + 2

\* The file's content is a whole JSON document, nothing (just truncated by
\* open(..., 'w')), or bytes that do not parse; size is its length.
JsonFile(doc) == [kind |-> "json", doc |-> doc, size |-> DocSize(doc)]
EmptyFile == [kind |-> "empty", doc |-> EmptyDoc, size |-> 0]
GarbledFile(n) == [kind |-> "garbled", doc |-> EmptyDoc, size |-> n]

\* load_json_file(filepath): json.load, and `default or {}` on any exception
\* (an empty or unparsable file raises JSONDecodeError).
load_json_file(f) == IF f.kind = "json" THEN f.doc ELSE EmptyDoc

\* save_json_file, first half: open(filepath, 'w') truncates the file.
OpenForWrite(f) == EmptyFile

\* save_json_file, second half: json.dump into the handle and close.  The
\* buffered text is written at offset 0 of whatever the file holds by then:
\* if another writer has put more bytes there since this handle truncated
\* the file, their tail stays behind this document.
DumpAndClose(f, doc) ==
    IF f.size > DocSize(doc) THEN GarbledFile(f.size) ELSE JsonFile(doc)

\* The file changes to f, and the history of whole documents with it.
Store(f) ==
    /\ file' = f
    /\ committed' = IF f.kind = "json" THEN f.doc ELSE committed

---------------------------------------------------------------------------
\* Events put on update_queue.  `id` is history only: the position of the
\* event in the sequence of all puts.
Event(type, message, ts, id) ==
    [type |-> type, message |-> message, timestamp |-> ts, id |-> id]

Heartbeat == [type |-> "heartbeat", message |-> <<>>, timestamp |-> 0, id |-> 0]

\* QueuePut with the bug of a stack: the newest event is the next to leave.
QueuePutFirst(q, e) == <<e>> \o q

\* update_queue.put(event): unbounded queue.Queue, never blocks.
QueuePut(q, e) == Append(q, e)

---------------------------------------------------------------------------
NewJob == [pc |-> "unborn", source |-> "", target |-> "", status |-> EmptyDoc,
           exc |-> "", alive |-> FALSE, emitted |-> 0, errs |-> 0, rc |-> 0]

\* `before` is history: the last whole record when the request arrived.
IdleStop == [pc |-> "idle", status |-> EmptyDoc, before |-> EmptyDoc]

\* `since` and `lastSent` are history: the number of events published when
\* the client connected, and the time of the last yield to it (or of its
\* connecting).
OffConsumer == [pc |-> "off", deadline |-> 0, since |-> 0, lastSent |-> 0]

\* No POST /api/start has been answered yet.
NoReply == [source |-> "", target |-> "", code |-> 0]

Init ==
    /\ file = JsonFile([state |-> "idle"])
    /\ committed = [state |-> "idle"]
    /\ queue = <<>>
    /\ now = 0
    /\ job = [j \in Jobs |-> NewJob]
    /\ started = 0
    /\ stop = [t \in StopWorkers |-> IdleStop]
    /\ stops = 0
    /\ consumer = [c \in Consumers |-> OffConsumer]
    /\ received = [c \in Consumers |-> <<>>]
    /\ published = 0
    /\ response = [status |-> [state |-> "idle"], timestamp |-> 0]
    /\ reply = NoReply
    /\ metrics = EmptyDoc
    /\ report = <<>>

\* What the service may find at STATUS_FILE when it is started: nothing, or
\* the empty file that a save_json_file of an earlier run left when that run
\* was killed between its open(..., 'w') and its dump.
Found == {"absent", "truncated"}

\* __main__, lines 211-213: the status file is written, with {'state':
\* 'idle'}, only if no file exists.
main(found) == IF found = "absent" THEN JsonFile([state |-> "idle"]) ELSE EmptyFile

\* The states in which the service may start to serve requests.
InitFound ==
    /\ \E found \in Found : file = main(found)
    /\ committed = load_json_file(file)
    /\ queue = <<>>
    /\ now = 0
    /\ job = [j \in Jobs |-> NewJob]
    /\ started = 0
    /\ stop = [t \in StopWorkers |-> IdleStop]
    /\ stops = 0
    /\ consumer = [c \in Consumers |-> OffConsumer]
    /\ received = [c \in Consumers |-> <<>>]
    /\ published = 0
    /\ response = [status |-> [state |-> "idle"], timestamp |-> 0]
    /\ reply = NoReply
    /\ metrics = EmptyDoc
    /\ report = <<>>

jobVars == <<job, started>>
stopVars == <<stop, stops>>
busVars == <<queue, published>>
consumerVars == <<consumer, received>>

---------------------------------------------------------------------------
\* start_migration with the bug of a validation that looks at the source only.
start_migrationSourceOnly(source, target) ==
    IF source = ""
    THEN /\ reply' = [source |-> source, target |-> target, code |-> BadRequest]
         /\ UNCHANGED <<file, committed, queue, now, jobVars, stopVars, consumerVars,
                        published, response, transferVars>>
    ELSE /\ started' = started + 1
         /\ job' = [job EXCEPT ![started + 1] =
                        [NewJob EXCEPT !.pc = "begin", !.source = source, !.target = target]]
         /\ reply' = [source |-> source, target |-> target, code |-> Ok]
         /\ UNCHANGED <<file, committed, queue, now, stopVars, consumerVars, published, response,
                        transferVars>>

\* POST /api/start: start_migration.  Validates the parameters and, with both
\* present, creates and starts a run_migration thread; nothing else is
\* consulted before the thread is started.
start_migration(source, target) ==
    IF source = "" \/ target = ""
    THEN /\ reply' = [source |-> source, target |-> target, code |-> BadRequest]
         /\ UNCHANGED <<file, committed, queue, now, jobVars, stopVars, consumerVars,
                        published, response, transferVars>>
    ELSE /\ started' = started + 1
         /\ job' = [job EXCEPT ![started + 1] =
                        [NewJob EXCEPT !.pc = "begin", !.source = source, !.target = target]]
         /\ reply' = [source |-> source, target |-> target, code |-> Ok]
         /\ UNCHANGED <<file, committed, queue, now, stopVars, consumerVars, published, response,
                        transferVars>>

\* Descriptions str(e) of the exceptions the try block of run_migration can see.
SaveError == "Permission denied"
SpawnError == "Cannot allocate memory"
ReadError == "Input/output error"

\* The exception handler is entered with the exception's description.
Raise(j, e) == job' = [job EXCEPT ![j].pc = "except", ![j].exc = e]

\* The thread has ended: its locals are gone; the external process, if it is
\* still running, is not affected.
Ended(j, how) == [NewJob EXCEPT !.pc = how, !.alive = job[j].alive]

\* RunOpenStatus with the bug of a record that is built by updating the one
\* loaded from the status file.
RunOpenStatusUpdate(j) ==
    /\ job[j].pc = "begin"
    /\ LET status == Put(Put(Put(Put(load_json_file(file), "state", "running"),
                                 "source", job[j].source), "target", job[j].target),
                         "start_time", now)
       IN \/ /\ Store(OpenForWrite(file))
             /\ job' = [job EXCEPT ![j].pc = "dump", ![j].status = status]
          \/ /\ job' = [job EXCEPT ![j].pc = "except", ![j].status = status,
                                   ![j].exc = SaveError]
             /\ UNCHANGED <<file, committed>>
    /\ UNCHANGED <<queue, now, started, stopVars, consumerVars, published, response, reply, transferVars>>

\* run_migration, lines 165-166: the running record is built and
\* save_json_file opens (truncates) the status file; makedirs/open may raise.
RunOpenStatus(j) ==
    /\ job[j].pc = "begin"
    /\ LET status == [state |-> "running", source |-> job[j].source,
                      target |-> job[j].target, start_time |-> now]
       IN \/ /\ Store(OpenForWrite(file))
             /\ job' = [job EXCEPT ![j].pc = "dump", ![j].status = status]
          \/ /\ job' = [job EXCEPT ![j].pc = "except", ![j].status = status,
                                   ![j].exc = SaveError]
             /\ UNCHANGED <<file, committed>>
    /\ UNCHANGED <<queue, now, started, stopVars, consumerVars, published, response, reply, transferVars>>

\* run_migration, line 166: json.dump of the running record and close; the
\* write may raise, which leaves the truncated file behind.
RunDumpStatus(j) ==
    /\ job[j].pc = "dump"
    /\ \/ /\ Store(DumpAndClose(file, job[j].status))
          /\ job' = [job EXCEPT ![j].pc = "spawn"]
       \/ /\ Raise(j, SaveError)
          /\ UNCHANGED <<file, committed>>
    /\ UNCHANGED <<queue, now, started, stopVars, consumerVars, published, response, reply, transferVars>>

\* run_migration, lines 169-175: subprocess.Popen, which may raise.
RunPopen(j) ==
    /\ job[j].pc = "spawn"
    /\ \/ job' = [job EXCEPT ![j].pc = "pump", ![j].alive = TRUE]
       \/ Raise(j, SpawnError)
    /\ UNCHANGED <<file, committed, queue, now, started, stopVars, consumerVars, published, response, reply, transferVars>>

\* The k-th line the external process prints, as readline returns it (with its
\* line end), and output.strip() of it: the message of the progress event.
StdoutLine(k) == <<"step", k, "\n">>

strip(line) == IF Len(line) > 0 /\ line[Len(line)] = "\n"
               THEN SubSeq(line, 1, Len(line) - 1) ELSE line

\* run_migration, lines 179-187: readline returns the process's next stdout
\* line, which is put on update_queue as a progress event.
RunReadLine(j) ==
    /\ job[j].pc = "pump"
    /\ job[j].emitted < MaxLines
    /\ queue' = QueuePut(queue, Event("progress", strip(StdoutLine(job[j].emitted + 1)),
                                       now, published + 1))
    /\ published' = published + 1
    /\ job' = [job EXCEPT ![j].emitted = @ + 1]
    /\ UNCHANGED <<file, committed, now, started, stopVars, consumerVars, response, reply, transferVars>>

\* run_migration, lines 179-181: readline returns '' and poll() reports that
\* the process has exited, with return code rc.
RunReadEof(j, rc) ==
    /\ job[j].pc = "pump"
    /\ job' = [job EXCEPT ![j].pc = "final", ![j].alive = FALSE, ![j].rc = rc,
                          ![j].emitted = 0, ![j].errs = 0]
    /\ UNCHANGED <<file, committed, queue, now, started, stopVars, consumerVars, published, response, reply, transferVars>>

\* run_migration, line 179: reading the pipe raises; the process is neither
\* waited for nor killed.
RunReadRaise(j) ==
    /\ job[j].pc = "pump"
    /\ job' = [job EXCEPT ![j].pc = "except", ![j].exc = ReadError, ![j].emitted = 0,
                          ![j].errs = 0]
    /\ UNCHANGED <<file, committed, queue, now, started, stopVars, consumerVars, published, response, reply, transferVars>>

\* The k-th line the external process prints on its standard error.
StderrLine(k) == <<"warning", k, "\n">>

\* The external process prints a line on stderr.  Popen was given
\* stderr=subprocess.PIPE, so the line goes into that pipe; run_migration
\* reads process.stdout only, and nothing ever reads process.stderr.
ProcessStderr(j) ==
    /\ job[j].pc = "pump"
    /\ job[j].alive
    /\ job[j].errs < MaxErrLines
    /\ job' = [job EXCEPT ![j].errs = @ + 1]
    /\ UNCHANGED <<file, committed, queue, now, started, stopVars, consumerVars, published, response, reply, transferVars>>

\* run_migration, lines 190-191: the thread's own status dict gets the final
\* state and end_time.
FinalStatus(status, rc, t) ==
    Put(Put(status, "state", IF rc = 0 THEN "completed" ELSE "failed"), "end_time", t)

\* run_migration, lines 190-192: final status built, save_json_file opens
\* (truncates) the status file; makedirs/open may raise.
RunOpenFinal(j) ==
    /\ job[j].pc = "final"
    /\ LET status == FinalStatus(job[j].status, job[j].rc, now)
       IN \/ /\ Store(OpenForWrite(file))
             /\ job' = [job EXCEPT ![j].pc = "fdump", ![j].status = status]
          \/ /\ job' = [job EXCEPT ![j].pc = "except", ![j].status = status,
                                   ![j].exc = SaveError]
             /\ UNCHANGED <<file, committed>>
    /\ UNCHANGED <<queue, now, started, stopVars, consumerVars, published, response, reply, transferVars>>

\* run_migration, line 192: json.dump of the final record and close.
RunDumpFinal(j) ==
    /\ job[j].pc = "fdump"
    /\ \/ /\ Store(DumpAndClose(file, job[j].status))
          /\ job' = [job EXCEPT ![j] = Ended(j, "done")]
       \/ /\ Raise(j, SaveError)
          /\ UNCHANGED <<file, committed>>
    /\ UNCHANGED <<queue, now, started, stopVars, consumerVars, published, response, reply, transferVars>>

\* run_migration, lines 195-197: the handler rebuilds status from the file.
FailedStatus(loaded, e) == Put(Put(loaded, "state", "failed"), "error", e)

RunExceptLoad(j) ==
    /\ job[j].pc = "except"
    /\ job' = [job EXCEPT ![j].pc = "xopen",
                          ![j].status = FailedStatus(load_json_file(file), job[j].exc)]
    /\ UNCHANGED <<file, committed, queue, now, started, stopVars, consumerVars, published, response, reply, transferVars>>

\* run_migration, line 198: save_json_file in the handler, open (truncate).
\* An exception here is not handled: the thread ends.
RunExceptOpen(j) ==
    /\ job[j].pc = "xopen"
    /\ \/ /\ Store(OpenForWrite(file))
          /\ job' = [job EXCEPT ![j].pc = "xdump"]
       \/ /\ job' = [job EXCEPT ![j] = Ended(j, "crashed")]
          /\ UNCHANGED <<file, committed>>
    /\ UNCHANGED <<queue, now, started, stopVars, consumerVars, published, response, reply, transferVars>>

\* run_migration, line 198: save_json_file in the handler, dump and close.
RunExceptDump(j) ==
    /\ job[j].pc = "xdump"
    /\ \/ /\ Store(DumpAndClose(file, job[j].status))
          /\ job' = [job EXCEPT ![j].pc = "xput"]
       \/ /\ job' = [job EXCEPT ![j] = Ended(j, "crashed")]
          /\ UNCHANGED <<file, committed>>
    /\ UNCHANGED <<queue, now, started, stopVars, consumerVars, published, response, reply, transferVars>>

\* run_migration, lines 199-203: the error event is put on update_queue.
RunExceptPut(j) ==
    /\ job[j].pc = "xput"
    /\ queue' = QueuePut(queue, Event("error", <<job[j].exc>>, now, published + 1))
    /\ published' = published + 1
    /\ job' = [job EXCEPT ![j] = Ended(j, "done")]
    /\ UNCHANGED <<file, committed, now, started, stopVars, consumerVars, response, reply, transferVars>>

\* An external process whose reader thread has left the pump loop exits by
\* itself at some point.
OrphanExit(j) ==
    /\ job[j].alive
    /\ job[j].pc # "pump"
    /\ job' = [job EXCEPT ![j].alive = FALSE]
    /\ UNCHANGED <<file, committed, queue, now, started, stopVars, consumerVars, published, response, reply, transferVars>>

---------------------------------------------------------------------------
\* POST /api/stop: stop_migration, lines 142-143: the record is loaded and its
\* state set to stopping.  The request is served by the first free handler.
StopLoad(t) ==
    /\ stop[t].pc = "idle"
    /\ \A u \in StopWorkers : u < t => stop[u].pc # "idle"
    /\ stops < MaxStops
    /\ stops' = stops + 1
    /\ stop' = [stop EXCEPT ![t] = [pc |-> "open",
                    status |-> Put(load_json_file(file), "state", "stopping"),
                    before |-> committed]]
    /\ UNCHANGED <<file, committed, queue, now, jobVars, consumerVars, published, response, reply, transferVars>>

\* stop_migration, line 144: save_json_file opens (truncates) the file.
StopOpen(t) ==
    /\ stop[t].pc = "open"
    /\ Store(OpenForWrite(file))
    /\ stop' = [stop EXCEPT ![t].pc = "dump"]
    /\ UNCHANGED <<queue, now, jobVars, stops, consumerVars, published, response, reply, transferVars>>

\* stop_migration, lines 144-145: json.dump, close, and the reply is sent.
StopDump(t) ==
    /\ stop[t].pc = "dump"
    /\ Store(DumpAndClose(file, stop[t].status))
    /\ stop' = [stop EXCEPT ![t] = IdleStop]
    /\ UNCHANGED <<queue, now, jobVars, stops, consumerVars, published, response, reply, transferVars>>

---------------------------------------------------------------------------
\* GET /api/status: get_status (system metrics left out of the body).
get_status ==
    /\ response' = [status |-> load_json_file(file), timestamp |-> now]
    /\ UNCHANGED <<file, committed, queue, now, jobVars, stopVars, consumerVars, published, reply,
                 transferVars>>

---------------------------------------------------------------------------
\* GET /api/transfers.  JSON values a transfer's "success" may have, as
\* written in the file, and bool() of what json.load makes of them.
SuccessValues == {"true", "false", "null", "0", "1"}

Falsy == {"false", "null", "0", "\"\"", "[]", "{}"}

Truthy(v) == v \notin Falsy

\* One entry of the list: a dict with or without the key "success".
Transfers == {EmptyDoc} \cup {[success |-> v] : v \in SuccessValues}

\* The documents the metrics file may hold: one without the key "transfers"
\* (as load_json_file returns for a missing file), or a list of entries.
TransferLists == UNION {[1..n -> Transfers] : n \in 0..MaxTransfers}

MetricsDocs == {EmptyDoc} \cup {[transfers |-> ts] : ts \in TransferLists}

\* dict.get(k, default)
get(doc, k, default) == IF Has(doc, k) THEN doc[k] ELSE default

\* sum(1 for t in ts if t.get('success')); "null" is the None that get
\* returns for a missing key.
RECURSIVE SumSuccess(_)
SumSuccess(ts) ==
    IF ts = <<>> THEN 0
    ELSE (IF Truthy(get(Head(ts), "success", "null")) THEN 1 ELSE 0) + SumSuccess(Tail(ts))

max(a, b) == IF a >= b THEN a ELSE b

\* a / b * percent as the fraction num/den; den = 0 stands for the
\* ZeroDivisionError of a zero divisor.
Rate(a, b, percent) ==
    IF b = 0 THEN [num |-> 0, den |-> 0] ELSE [num |-> a * percent, den |-> b]

\* get_transfers with the bug of a division by the bare length of the list.
get_transfersBareLength ==
    /\ report' = <<[transfers |-> get(metrics, "transfers", <<>>),
                    total_count |-> Len(get(metrics, "transfers", <<>>)),
                    success_rate |-> Rate(SumSuccess(get(metrics, "transfers", <<>>)),
                                          Len(get(metrics, "transfers", <<>>)), Percent)]>>
    /\ UNCHANGED <<file, committed, queue, now, jobVars, stopVars, consumerVars, published,
                   response, reply, metrics>>

\* get_transfers, lines 105-113.
get_transfers ==
    /\ report' = <<[transfers |-> get(metrics, "transfers", <<>>),
                    total_count |-> Len(get(metrics, "transfers", <<>>)),
                    success_rate |-> Rate(SumSuccess(get(metrics, "transfers", <<>>)),
                                          max(Len(get(metrics, "transfers", <<>>)), 1),
                                          Percent)]>>
    /\ UNCHANGED <<file, committed, queue, now, jobVars, stopVars, consumerVars, published,
                   response, reply, metrics>>

\* The service with any metrics file that other tools may have written.
InitTransfers ==
    /\ file = JsonFile([state |-> "idle"])
    /\ committed = [state |-> "idle"]
    /\ queue = <<>>
    /\ now = 0
    /\ job = [j \in Jobs |-> NewJob]
    /\ started = 0
    /\ stop = [t \in StopWorkers |-> IdleStop]
    /\ stops = 0
    /\ consumer = [c \in Consumers |-> OffConsumer]
    /\ received = [c \in Consumers |-> <<>>]
    /\ published = 0
    /\ response = [status |-> [state |-> "idle"], timestamp |-> 0]
    /\ reply = NoReply
    /\ metrics \in MetricsDocs
    /\ report = <<>>

---------------------------------------------------------------------------
\* GET /api/events: a client connects and its generator starts waiting on
\* update_queue.get(timeout=30).  Connections are numbered in arrival order.
Connect(c) ==
    /\ consumer[c].pc = "off"
    /\ \A d \in Consumers : d < c => consumer[d].pc # "off"
    /\ consumer' = [consumer EXCEPT ![c] =
                        [pc |-> "wait", deadline |-> now + QueueTimeout, since |-> published,
                         lastSent |-> now]]
    /\ UNCHANGED <<file, committed, queue, now, jobVars, stopVars, received, published, response, reply, transferVars>>

\* GetUpdate with the bug of a timeout that is not started afresh by each
\* call of get: the wait that follows an event ends when the old one would.
GetUpdateOldTimer(c) ==
    /\ consumer[c].pc = "wait"
    /\ queue # <<>>
    /\ received' = [received EXCEPT ![c] = Append(@, Head(queue))]
    /\ queue' = Tail(queue)
    /\ consumer' = [consumer EXCEPT ![c].lastSent = now]
    /\ UNCHANGED <<file, committed, now, jobVars, stopVars, published, response, reply, transferVars>>

\* generate, lines 152-153: get returns the head of the queue, which is
\* yielded to this client; the generator waits again.
GetUpdate(c) ==
    /\ consumer[c].pc = "wait"
    /\ queue # <<>>
    /\ received' = [received EXCEPT ![c] = Append(@, Head(queue))]
    /\ queue' = Tail(queue)
    /\ consumer' = [consumer EXCEPT ![c].deadline = now + QueueTimeout,
                                    ![c].lastSent = now]
    /\ UNCHANGED <<file, committed, now, jobVars, stopVars, published, response, reply, transferVars>>

\* GetTimeout with the bug of a timeout that does not look at the queue.
GetTimeoutUnchecked(c) ==
    /\ consumer[c].pc = "wait"
    /\ now >= consumer[c].deadline
    /\ received' = [received EXCEPT ![c] = Append(@, Heartbeat)]
    /\ consumer' = [consumer EXCEPT ![c].deadline = now + QueueTimeout,
                                    ![c].lastSent = now]
    /\ UNCHANGED <<file, committed, queue, now, jobVars, stopVars, published, response, reply, transferVars>>

\* generate, lines 154-155: the wait timed out with the queue empty
\* (queue.Empty): a heartbeat is yielded; the generator waits again.
GetTimeout(c) ==
    /\ consumer[c].pc = "wait"
    /\ queue = <<>>
    /\ now >= consumer[c].deadline
    /\ received' = [received EXCEPT ![c] = Append(@, Heartbeat)]
    /\ consumer' = [consumer EXCEPT ![c].deadline = now + QueueTimeout,
                                    ![c].lastSent = now]
    /\ UNCHANGED <<file, committed, queue, now, jobVars, stopVars, published, response, reply, transferVars>>

Min(S) == CHOOSE x \in S : \A y \in S : x <= y

\* The ends of the waits in progress that lie ahead.
Deadlines == {consumer[c].deadline : c \in {d \in Consumers : consumer[d].pc = "wait"}}

\* Time passes, by at most `step` and up to `limit`: not past a timeout that
\* is due (get(timeout=30) raises queue.Empty when its time is up and the
\* queue is empty), and not over the end of a wait.
TickBy(step, limit) ==
    /\ now + step <= limit
    /\ \A c \in Consumers :
          consumer[c].pc = "wait" /\ queue = <<>> => now < consumer[c].deadline
    /\ now' = Min({now + step} \cup {d \in Deadlines : d > now})
    /\ UNCHANGED <<file, committed, queue, jobVars, stopVars, consumerVars, published, response, reply, transferVars>>

Tick == TickBy(TickStep, MaxTime)

---------------------------------------------------------------------------
\* A POST /api/start request arrives, while fewer than `limit` have been
\* accepted so far.
StartRequest(limit) ==
    /\ started < limit
    /\ \E source \in Sources, target \in Targets : start_migration(source, target)

JobStep(limit) ==
    \/ StartRequest(limit)
    \/ \E j \in Jobs : RunOpenStatus(j)
    \/ \E j \in Jobs : RunDumpStatus(j)
    \/ \E j \in Jobs : RunPopen(j)
    \/ \E j \in Jobs : RunReadLine(j)
    \/ \E j \in Jobs, rc \in {0, 1} : RunReadEof(j, rc)
    \/ \E j \in Jobs : RunReadRaise(j)
    \/ \E j \in Jobs : RunOpenFinal(j)
    \/ \E j \in Jobs : RunDumpFinal(j)
    \/ \E j \in Jobs : RunExceptLoad(j)
    \/ \E j \in Jobs : RunExceptOpen(j)
    \/ \E j \in Jobs : RunExceptDump(j)
    \/ \E j \in Jobs : RunExceptPut(j)
    \/ \E j \in Jobs : OrphanExit(j)

\* The steps of the run_migration thread of job j.
run_migration(j) ==
    \/ RunOpenStatus(j) \/ RunDumpStatus(j) \/ RunPopen(j)
    \/ RunReadLine(j) \/ (\E rc \in {0, 1} : RunReadEof(j, rc)) \/ RunReadRaise(j)
    \/ RunOpenFinal(j) \/ RunDumpFinal(j)
    \/ RunExceptLoad(j) \/ RunExceptOpen(j) \/ RunExceptDump(j) \/ RunExceptPut(j)

StopStep ==
    \/ \E t \in StopWorkers : StopLoad(t)
    \/ \E t \in StopWorkers : StopOpen(t)
    \/ \E t \in StopWorkers : StopDump(t)

ConsumerStep ==
    \/ \E c \in Consumers : Connect(c)
    \/ \E c \in Consumers : GetUpdate(c)
    \/ \E c \in Consumers : GetTimeout(c)

ProcessStep == \E j \in Jobs : ProcessStderr(j)

\* The whole server.  The specifications after it take parts of it: every
\* behaviour of a part is a behaviour of the whole, in which the handlers
\* left out receive no request.
Next ==
    \/ JobStep(MaxJobs) \/ ProcessStep \/ StopStep \/ ConsumerStep
    \/ get_status \/ get_transfers \/ Tick

Spec == Init /\ [][Next]_vars

\* The job supervisor alone: start requests and the jobs they run.
NextJobs == JobStep(MaxJobs) \/ Tick

SpecJobs == Init /\ [][NextJobs]_vars

\* The state store under one job and Stop requests.
NextStore == JobStep(SoloJobs) \/ StopStep \/ Tick

SpecStore == Init /\ [][NextStore]_vars

\* The same within one tick of the clock, with every started thread scheduled
\* again and again until it ends (threading.Thread: the threads are scheduled
\* by the operating system).
NextStopping == JobStep(SoloJobs) \/ StopStep

SpecStoppingFair ==
    Init /\ [][NextStopping]_vars /\ \A j \in Jobs : WF_vars(run_migration(j))

\* The state store under one job and status queries.
NextStatus == JobStep(SoloJobs) \/ get_status \/ Tick

SpecStatus == Init /\ [][NextStatus]_vars

\* The same, from whatever the service found when it was started.
SpecFound == InitFound /\ [][NextStatus]_vars

\* The transfer report over every metrics file.
NextTransfers == get_transfers

SpecTransfers == InitTransfers /\ [][NextTransfers]_vars

\* The output pump: one job and everything its process prints.
NextPump == JobStep(SoloJobs) \/ ProcessStep \/ Tick

SpecPump == Init /\ [][NextPump]_vars

\* The event stream over time: a job publishing, /api/events connections
\* consuming and timing out, on a finer and longer clock.
NextIdle == JobStep(SoloJobs) \/ ConsumerStep \/ TickBy(FineStep, MaxIdleTime)

SpecIdle == Init /\ [][NextIdle]_vars

\* The event bus: jobs publishing, /api/events connections consuming.
NextBus == JobStep(SoloJobs) \/ ConsumerStep \/ Tick

SpecBus == Init /\ [][NextBus]_vars

---------------------------------------------------------------------------
\* Vocabulary of the properties.

\* The status file holds a whole record whose state is st.
PersistedState(st) ==
    file.kind = "json" /\ Has(file.doc, "state") /\ file.doc["state"] = st

\* run_migration threads that have been started and have not ended.
InFlight == {j \in Jobs : job[j].pc \notin {"unborn", "done", "crashed"}}

\* External processes that are running.
Processes == {j \in Jobs : job[j].alive}

\* Position in run_migration's exception handler.
InHandler(j) == job[j].pc \in {"except", "xopen", "xdump", "xput"}

\* The thread of job j ends in this step.
Ends(j) == job[j].pc \notin {"done", "crashed"} /\ job'[j].pc \in {"done", "crashed"}

ErrorEvents(q) == Len(SelectSeq(q, LAMBDA e : e.type = "error"))

\* The ids of the real (non-heartbeat) events consumer c has been sent that
\* were published after it connected.
DeliveredSince(c) ==
    LET real == SelectSeq(received[c],
                          LAMBDA e : e.type # "heartbeat" /\ e.id > consumer[c].since)
    IN [i \in 1..Len(real) |-> real[i].id]

\* The ids of the events published since consumer c connected, in publish order.
PublishedSince(c) == [i \in 1..(published - consumer[c].since) |-> consumer[c].since + i]

IsPrefix(s, t) == Len(s) <= Len(t) /\ SubSeq(t, 1, Len(s)) = s

---------------------------------------------------------------------------
\* C1: a start request that arrives while the persisted state is running is
\* rejected (no thread is started, so nothing is written and no process is
\* launched); one that is accepted leads to a running record with the
\* request's source and target and a start_time not later than the clock.
C1_StartContract ==
    [][ /\ started' > started => ~PersistedState("running")
        /\ \A j \in Jobs :
              (job[j].pc = "dump" /\ job'[j].pc = "spawn") =>
                  /\ file'.kind = "json"
                  /\ file'.doc = [state |-> "running", source |-> job[j].source,
                                  target |-> job[j].target,
                                  start_time |-> file'.doc["start_time"]]
                  /\ file'.doc["start_time"] <= now' ]_vars

\* C2: at no time are two external migration processes running.
C2_AtMostOneProcess == Cardinality(Processes) <= 1

\* C3: what a connected consumer has been sent of the events published since
\* it connected is an initial part of them: each one once, none skipped, in
\* publish order.
C3_EveryConsumerGetsEveryEvent ==
    \A c \in Consumers :
        consumer[c].pc = "wait" => IsPrefix(DeliveredSince(c), PublishedSince(c))

\* C4: a consumer is never sent an event that was published before it
\* connected.
C4_NoReplay ==
    \A c \in Consumers : \A i \in 1..Len(received[c]) :
        received[c][i].type # "heartbeat" => received[c][i].id > consumer[c].since

\* C5: the record a job writes when its process has exited is completed with
\* end_time >= start_time for return code 0, and failed with a non-empty
\* error for any other return code.
C5_FinalRecord ==
    \A j \in Jobs :
        job[j].pc = "fdump" =>
            LET d == job[j].status
            IN IF job[j].rc = 0
               THEN d["state"] = "completed" /\ d["end_time"] >= d["start_time"]
               ELSE d["state"] = "failed" /\ Has(d, "error") /\ d["error"] # ""

\* C6: a whole persisted record has end_time exactly when its state is
\* completed or failed, and error exactly when its state is failed.
C6_RecordShape ==
    file.kind = "json" =>
        /\ Has(file.doc, "end_time") <=> file.doc["state"] \in {"completed", "failed"}
        /\ Has(file.doc, "error") <=> file.doc["state"] = "failed"

\* C7: a job thread that entered the exception handler ends having put
\* exactly one error event, carrying the exception's description, on the
\* queue, with the persisted record failed and its error that description.
C7_ExceptionRecorded ==
    [][ \A j \in Jobs :
            (InHandler(j) /\ Ends(j)) =>
                /\ published' = published + 1
                /\ queue' = Append(queue, Event("error", <<job[j].exc>>, now, published'))
                /\ PersistedState("failed")
                /\ Has(file.doc, "error") /\ file.doc["error"] = job[j].exc ]_vars

\* C8: a status query never returns the default (empty) document: the file
\* is created with a record before the server starts and every write puts a
\* record with a state in it.
C8_ReadsSeeWholeRecord == Has(response.status, "state")

\* C9: a Stop request that arrives while the record is already stopping, and
\* completes with that record still the last whole one, leaves it in the file.
C9_StopIdempotent ==
    [][ \A t \in StopWorkers :
            (stop[t].pc = "dump" /\ stop'[t].pc = "idle"
                /\ stop[t].before["state"] = "stopping"
                /\ committed = stop[t].before) =>
                file' = JsonFile(stop[t].before) ]_vars

\* C10: a step of a Stop request changes nothing but the status file (no
\* process is ended, no event is put on or taken off the queue), and when
\* the request completes the file holds the record it held before with
\* state set to stopping.
C10_StopFrame ==
    [][ \A t \in StopWorkers :
            stop'[t] # stop[t] =>
                /\ job' = job /\ queue' = queue /\ published' = published
                /\ (stop[t].pc = "dump" =>
                        file' = JsonFile(Put(committed, "state", "stopping"))) ]_vars

\* The messages of the progress events in q, in queue order.
ProgressMessages(q) ==
    LET progress == SelectSeq(q, LAMBDA e : e.type = "progress")
    IN [i \in 1..Len(progress) |-> progress[i].message]

\* Number of progress events in q that carry the text of `line`.
Carrying(q, line) ==
    Len(SelectSeq(q, LAMBDA e : e.type = "progress" /\ e.message = strip(line)))

\* C11: when the pump loop ends (the process has exited and the final state
\* is about to be written) every line the process printed, on stdout or on
\* stderr, has exactly one progress event on the queue, the stdout lines in
\* the order printed.
C11_EveryLinePublished ==
    [][ \A j \in Jobs :
            (job[j].pc = "pump" /\ job'[j].pc = "final") =>
                /\ \A k \in 1..job[j].emitted : Carrying(queue, StdoutLine(k)) = 1
                /\ \A k \in 1..job[j].errs : Carrying(queue, StderrLine(k)) = 1
                /\ Len(ProgressMessages(queue)) = job[j].emitted + job[j].errs
                /\ \A k \in 1..job[j].emitted :
                       \E i \in 1..Len(queue) : /\ queue[i].message = strip(StdoutLine(k))
                                                /\ \A m \in 1..(k - 1) : \E h \in 1..(i - 1) :
                                                       queue[h].message = strip(StdoutLine(m)) ]_vars

\* No client is connected to /api/events.
NoConsumer == \A c \in Consumers : consumer[c].pc = "off"

\* C12: while no consumer is connected the backlog of undelivered events
\* does not grow.  (The other half of the claim is in the model's shape:
\* QueuePut has no guard, so RunReadLine and RunExceptPut are never held up
\* by the queue or by a consumer.)
C12_NoBacklogWithoutConsumers ==
    [][ NoConsumer => Len(queue') <= Len(queue) ]_vars

\* Consumer c is sent a heartbeat in this step.
HeartbeatTo(c) == received'[c] = Append(received[c], Heartbeat)

\* C13: a heartbeat is sent to a consumer only when a full wait window has
\* passed since the last thing sent to it (so never two in one window, and
\* none in a window in which it was sent a real event), and time does not run
\* past the end of the window of a consumer that waits on an empty queue: the
\* heartbeat is sent first.
C13_OneHeartbeatPerWindow ==
    [][ \A c \in Consumers :
            /\ HeartbeatTo(c) => now - consumer[c].lastSent >= QueueTimeout
            /\ (now' > now /\ consumer[c].pc = "wait" /\ queue = <<>>) =>
                   now' - consumer[c].lastSent <= QueueTimeout ]_vars

\* A consumer has been sent a heartbeat, later a real event, and a heartbeat
\* again one window after it.
C13_Witness ==
    \E c \in Consumers : \E i \in 1..Len(received[c]) :
        /\ i > 1 /\ i < Len(received[c])
        /\ received[c][i - 1].type = "heartbeat"
        /\ received[c][i].type # "heartbeat"
        /\ received[c][i + 1].type = "heartbeat"

\* A POST /api/start is answered in this step.
StartAnswered == reply' # reply \/ started' # started

\* C14: a POST /api/start whose source or target is missing or empty is
\* answered 400 and changes nothing: no thread is created, the status file
\* and the queue are as before; one with both present is answered "started"
\* and a run_migration thread with these parameters has been created.
C14_StartValidation ==
    [][ StartAnswered =>
            IF reply'.source = "" \/ reply'.target = ""
            THEN /\ reply'.code = BadRequest
                 /\ UNCHANGED <<file, committed, queue, published, jobVars>>
            ELSE /\ reply'.code = Ok
                 /\ started' = started + 1
                 /\ job'[started'].pc = "begin"
                 /\ job'[started'].source = reply'.source
                 /\ job'[started'].target = reply'.target ]_vars

\* A request without a target has been answered 400 after an earlier request
\* was accepted, whose process is running.
C14_Witness ==
    /\ reply.code = BadRequest /\ reply.source # "" /\ reply.target = ""
    /\ started = 1 /\ job[1].alive

\* GET /api/status is answered in this step.
StatusAnswered == response' # response

\* C15: as long as no record has been written (no job has been started, so
\* nothing has saved a status), a status query is answered with the default
\* record {state: idle}, also when the status file cannot be read.
C15_DefaultIsIdle ==
    [][ StatusAnswered /\ started = 0 => response'.status = [state |-> "idle"] ]_vars

\* The indices of the entries of ts whose success flag is truthy.
Successes(ts) == {i \in 1..Len(ts) : Has(ts[i], "success") /\ Truthy(ts[i].success)}

\* C16: every /api/transfers response gives the length of the transfers
\* list as total_count and, as success_rate, the percentage of its entries
\* with a truthy success flag; it is 0 for an empty or missing list, and the
\* division never has a zero divisor.
C16_TransferReport ==
    \A i \in 1..Len(report) :
        LET ts == IF Has(metrics, "transfers") THEN metrics.transfers ELSE <<>>
            rate == report[i].success_rate
        IN  /\ report[i].total_count = Len(ts)
            /\ rate.den # 0
            /\ rate.num * Len(ts) = 100 * Cardinality(Successes(ts)) * rate.den
            /\ Len(ts) = 0 => rate.num = 0

\* The report on three transfers of which two succeeded: 200/3 per cent.
C16_Witness ==
    /\ report # <<>>
    /\ report[1].total_count = 3
    /\ report[1].success_rate = [num |-> 200, den |-> 3]
    /\ metrics.transfers[2] = [success |-> "false"]

\* The ids of the events that have been yielded to some client.
Delivered == UNION {{received[c][i].id : i \in 1..Len(received[c])} : c \in Consumers}

\* C17: a heartbeat is yielded to a consumer only when nothing is queued:
\* every event put on the queue so far, whether before or while the consumer
\* waited, has been taken from it and yielded before the heartbeat is.
C17_HeartbeatAfterQueued ==
    [][ \A c \in Consumers :
            HeartbeatTo(c) => queue = <<>> /\ (1..published) \subseteq Delivered ]_vars

\* A consumer that found an event queued when it connected has been yielded
\* that event first and a heartbeat after it.
C17_Witness ==
    \E c \in Consumers :
        /\ Len(received[c]) >= 2
        /\ received[c][1].type = "progress"
        /\ received[c][1].id <= consumer[c].since
        /\ received[c][2].type = "heartbeat"

\* The real events yielded to consumer c, in the order of their yielding.
RealEvents(c) == SelectSeq(received[c], LAMBDA e : e.type # "heartbeat")

\* The ids of the events in sequence q grow from each one to the next.
InPublishOrder(q) == \A i, j \in 1..Len(q) : i < j => q[i].id < q[j].id

\* C18: no event is yielded twice, neither to two consumers nor twice to
\* one, and none that has been yielded is still queued; events leave the
\* queue in the order of their puts, so that what is yielded was put before
\* everything still queued and each consumer has a subsequence of the
\* published sequence, in its order.
C18_AtMostOnceInOrder ==
    /\ \A c, d \in Consumers :
           \A i \in 1..Len(RealEvents(c)), j \in 1..Len(RealEvents(d)) :
               RealEvents(c)[i].id = RealEvents(d)[j].id => c = d /\ i = j
    /\ \A c \in Consumers : InPublishOrder(RealEvents(c))
    /\ InPublishOrder(queue)
    /\ \A c \in Consumers : \A i \in 1..Len(RealEvents(c)) : \A k \in 1..Len(queue) :
           RealEvents(c)[i].id < queue[k].id
    /\ \A c \in Consumers : \A i \in 1..Len(RealEvents(c)) :
           RealEvents(c)[i].id \in 1..published

\* Two consumers have shared three events: one has the first and the third,
\* the other the second.
C18_Witness ==
    \E c, d \in Consumers :
        /\ c # d
        /\ Len(RealEvents(c)) = 2
        /\ RealEvents(c)[1].id = 1 /\ RealEvents(c)[2].id = 3
        /\ Len(RealEvents(d)) = 1 /\ RealEvents(d)[1].id = 2

\* No request is being served and none can arrive any more.
Quiet ==
    /\ started = SoloJobs
    /\ stops = MaxStops
    /\ \A t \in StopWorkers : stop[t].pc = "idle"

\* C19: when the process of a job has exited (its thread is about to write
\* the final record) and the record says stopping, with no request in
\* progress or to come, the record comes to say completed or failed and
\* stays so.
C19_StoppingIsOverwritten ==
    [](\A j \in Jobs :
          (job[j].pc = "final" /\ PersistedState("stopping") /\ Quiet)
              => <>[](PersistedState("completed") \/ PersistedState("failed")))

\* The thread of job j writes its running record in this step.
WritesRunning(j) == job[j].pc = "dump" /\ job'[j].pc = "spawn"

\* C20: the record a job writes at its start has the keys state, source,
\* target and start_time and no other, with state running and the job's own
\* parameters, whatever the file held before; if the file holds a whole
\* record after the write, it is this one.
C20_FreshRunningRecord ==
    [][ \A j \in Jobs :
            WritesRunning(j) =>
                /\ DOMAIN job[j].status = {"state", "source", "target", "start_time"}
                /\ job[j].status["state"] = "running"
                /\ job[j].status["source"] = job[j].source
                /\ job[j].status["target"] = job[j].target
                /\ file'.kind = "json" => file'.doc = job[j].status ]_vars

\* The second job has written its running record over the record that the
\* first one left at its end, and the file holds just the four keys.
C20_Witness ==
    /\ started = 2
    /\ job[1].pc = "done"
    /\ job[2].pc = "spawn"
    /\ file.kind = "json"
    /\ DOMAIN file.doc = {"state", "source", "target", "start_time"}
    /\ file.doc["source"] = job[2].source

====
